---- MODULE Spec2Model ----
(***************************************************************************)
(* Model of scripts/leaderboard_total_testnet.py: the batch pipeline of    *)
(* main() (read keys, two GET requests per key, aggregate, sort, rank,     *)
(* write CSV and JSON).                                                    *)
(*                                                                         *)
(* Python strings are sequences of one-character strings, so that strip(), *)
(* int() and str() are computed and not assumed.  A JSON object is a set   *)
(* of <<key, value>> pairs.  The fields public_key_short, *_cspr and       *)
(* cspr_live_url of a row are pure functions of the fields kept here and   *)
(* are left out.  rows, errors and requests carry the position of the      *)
(* input entry they belong to ("entry"), a history field the program does  *)
(* not have.                                                               *)
(***************************************************************************)
EXTENDS Integers, Sequences, FiniteSets, TLC

\* ---------------------------------------------------------------- bounds
MaxLines == 2
MaxDelegs == 2
MaxLimit == 2

\* ------------------------------------------------------- strings and ints
DigitChars == <<"0", "1", "2", "3", "4", "5", "6", "7", "8", "9">>

Whitespace == {" ", "\n"}

IsDigit(c) == \E k \in 1..10 : DigitChars[k] = c

DigitVal(c) == (CHOOSE k \in 1..10 : DigitChars[k] = c) - 1

RECURSIVE LStrip(_)
LStrip(s) ==
  IF s # <<>> /\ Head(s) \in Whitespace THEN LStrip(Tail(s)) ELSE s

RECURSIVE RStrip(_)
RStrip(s) ==
  IF s # <<>> /\ s[Len(s)] \in Whitespace
    THEN RStrip(SubSeq(s, 1, Len(s) - 1))
    ELSE s

\* str.strip()
Strip(s) == RStrip(LStrip(s))

\* str.startswith
StartsWith(s, c) == s # <<>> /\ Head(s) = c

RECURSIVE PyStrNat(_)
PyStrNat(n) ==
  IF n < 10 THEN <<DigitChars[n + 1]>>
  ELSE PyStrNat(n \div 10) \o <<DigitChars[(n % 10) + 1]>>

\* str(n) of an int
PyStr(n) == IF n < 0 THEN <<"-">> \o PyStrNat(0 - n) ELSE PyStrNat(n)

RECURSIVE DigitsVal(_)
DigitsVal(s) ==
  IF s = <<>> THEN 0
  ELSE 10 * DigitsVal(SubSeq(s, 1, Len(s) - 1)) + DigitVal(s[Len(s)])

\* int(s) of a str: surrounding whitespace and one leading sign are
\* accepted; ok = FALSE stands for the ValueError.
PyInt(s) ==
  LET t == Strip(s)
      signed == t # <<>> /\ Head(t) \in {"+", "-"}
      body == IF signed THEN Tail(t) ELSE t
      good == body # <<>> /\ \A k \in 1..Len(body) : IsDigit(body[k])
  IN IF ~good THEN [ok |-> FALSE, val |-> 0]
     ELSE [ok |-> TRUE,
           val |-> IF signed /\ Head(t) = "-" THEN 0 - DigitsVal(body)
                   ELSE DigitsVal(body)]

\* dict.get(key, default) on a JSON object
DictGet(d, key, default) ==
  IF \E p \in d : p[1] = key
    THEN (CHOOSE p \in d : p[1] = key)[2]
    ELSE default

None == [bound |-> FALSE]

Some(v) == [bound |-> TRUE, val |-> v]

RECURSIVE Reverse(_)
Reverse(s) == IF s = <<>> THEN <<>> ELSE Reverse(Tail(s)) \o <<Head(s)>>

\* ------------------------------------------------------------ environment
\* Lines as "for line in f" yields them.
LineKinds ==
  { <<"\n">>,
    <<" ", "#", "c", "\n">>,
    <<" ", "a", " ", "\n">>,
    <<"b", "\n">> }

FileContents == UNION { [1..n -> LineKinds] : n \in 0..MaxLines }

\* The value of the LIMIT environment variable: unset, empty, or a number.
LimitEnvs == {None, Some(<<>>)} \cup { Some(PyStr(n)) : n \in 0..MaxLimit }

\* os.getenv("LIMIT", "0")
GetEnvLimit(e) == IF e.bound THEN e.val ELSE <<"0">>

\* LIMIT = int(os.getenv("LIMIT", "0") or "0")
LimitOf(e) ==
  LET v == GetEnvLimit(e)
  IN PyInt(IF v = <<>> THEN <<"0">> ELSE v).val

BalanceValues == { <<"9">>, <<"x">> }

\* the "data" object of GET /accounts/{pk}
AccountData == { {} } \cup { { <<"balance", b>> } : b \in BalanceValues }

StakeValues == { <<"1">>, <<"x">> }

DelegationEntries == { {} } \cup { { <<"stake", s>> } : s \in StakeValues }

\* the "data" list of GET /accounts/{pk}/delegations
DelegationData == UNION { [1..n -> DelegationEntries] : n \in 0..MaxDelegs }

\* ------------------------------------------------------------------ state
VARIABLES fileExists, lines, LIMIT, pc, public_keys, i, rows, errors,
          acct, liquid_motes, delegations, requests,
          csvFile, jsonFile, csvWrites, jsonWrites

vars == <<fileExists, lines, LIMIT, pc, public_keys, i, rows, errors,
          acct, liquid_motes, delegations, requests,
          csvFile, jsonFile, csvWrites, jsonWrites>>

Init ==
  /\ fileExists \in BOOLEAN
  /\ lines \in (IF fileExists THEN FileContents ELSE {<<>>})
  /\ LIMIT \in { LimitOf(e) : e \in LimitEnvs }
  /\ pc = "start"
  /\ public_keys = <<>>
  /\ i = 0
  /\ rows = <<>>
  /\ errors = <<>>
  /\ acct = None
  /\ liquid_motes = None
  /\ delegations = None
  /\ requests = <<>>
  /\ csvFile = None
  /\ jsonFile = None
  /\ csvWrites = 0
  /\ jsonWrites = 0

\* ---------------------------------------------------------- input reader
FileMissingNever(exists) == FALSE

\* not os.path.exists(path)
FileMissing(exists) == ~exists

RECURSIVE ReadLoop(_, _)
ReadLoop(ls, keys) ==
  IF ls = <<>> THEN keys
  ELSE LET k == Strip(Head(ls))
       IN IF k = <<>> THEN ReadLoop(Tail(ls), keys)
          ELSE IF StartsWith(k, "#") THEN ReadLoop(Tail(ls), keys)
          ELSE ReadLoop(Tail(ls), Append(keys, k))

read_public_keys(ls) == ReadLoop(ls, <<>>)

\* keys[:n]
Slice(keys, n) == SubSeq(keys, 1, IF n < Len(keys) THEN n ELSE Len(keys))

ApplyLimitAlways(keys, limit) == Slice(keys, limit)

\* if LIMIT and LIMIT > 0: public_keys = public_keys[:LIMIT]
ApplyLimit(keys, limit) ==
  IF limit # 0 /\ limit > 0 THEN Slice(keys, limit) ELSE keys

\* ------------------------------------------------------------- per key
\* the for statement: next element or fall through to the sort
ForNext(keys, n) == IF n <= Len(keys) THEN "acct" ELSE "sort"

NextIndexStuck(n) == n

NextIndex(n) == n + 1

ExceptHandlerSwallow(rs, es, pk, e, n) == [rows |-> rs, errors |-> es]

ExceptHandlerPartial(rs, es, pk, e, n) ==
  [rows |-> Append(rs, [rank |-> 0, public_key |-> pk,
                        total_motes |-> PyStr(0), liquid_motes |-> PyStr(0),
                        staked_motes |-> PyStr(0), entry |-> n]),
   errors |-> Append(es, [public_key |-> pk, error |-> e, entry |-> n])]

\* except Exception as e: errors.append({"public_key": pk, "error": str(e)})
ExceptHandler(rs, es, pk, e, n) ==
  [rows |-> rs,
   errors |-> Append(es, [public_key |-> pk, error |-> e, entry |-> n])]

AfterExceptAbort == "exit"

\* control continues at time.sleep after the handler
AfterExcept == "sleep"

Raise(e) ==
  LET h == ExceptHandler(rows, errors, public_keys[i], e, i)
  IN /\ rows' = h.rows
     /\ errors' = h.errors
     /\ pc' = AfterExcept

RECURSIVE SumStakesBreak(_, _)
SumStakesBreak(ds, staked) ==
  IF ds = <<>> THEN staked
  ELSE LET p == PyInt(DictGet(Head(ds), "stake", <<"0">>))
       IN IF p.ok THEN SumStakesBreak(Tail(ds), staked + p.val)
          ELSE staked

\* for d in delegations: try: staked_motes += int(d.get("stake", "0"))
\*                       except Exception: pass
RECURSIVE SumStakes(_, _)
SumStakes(ds, staked) ==
  IF ds = <<>> THEN staked
  ELSE LET p == PyInt(DictGet(Head(ds), "stake", <<"0">>))
       IN SumStakes(Tail(ds), IF p.ok THEN staked + p.val ELSE staked)

MakeRow(pk, liquid, staked, n) ==
  LET total_motes == liquid + staked
  IN [rank |-> 0,
      public_key |-> pk,
      total_motes |-> PyStr(total_motes),
      liquid_motes |-> PyStr(liquid),
      staked_motes |-> PyStr(staked),
      entry |-> n]

\* ------------------------------------------------------------- reporter
\* key=lambda r: int(r["total_motes"])
SortKey(r) == PyInt(r.total_motes).val

RECURSIVE LexLess(_, _)
LexLess(s, t) ==
  IF t = <<>> THEN FALSE
  ELSE IF s = <<>> THEN TRUE
  ELSE IF Head(s) # Head(t)
    THEN (CHOOSE k \in 1..10 : DigitChars[k] = Head(s))
           < (CHOOSE k \in 1..10 : DigitChars[k] = Head(t))
  ELSE LexLess(Tail(s), Tail(t))

KeyLessStr(a, b) == LexLess(a.total_motes, b.total_motes)

\* the comparison of two sort keys
KeyLess(a, b) == SortKey(a) < SortKey(b)

\* x goes behind every element that is not greater than it
RECURSIVE InsertStable(_, _)
InsertStable(s, x) ==
  IF s = <<>> THEN <<x>>
  ELSE IF KeyLess(x, Head(s)) THEN <<x>> \o s
  ELSE <<Head(s)>> \o InsertStable(Tail(s), x)

RECURSIVE StableSortAsc(_, _)
StableSortAsc(s, acc) ==
  IF s = <<>> THEN acc
  ELSE StableSortAsc(Tail(s), InsertStable(acc, Head(s)))

ListSortNaive(s, reverse) ==
  IF reverse THEN Reverse(StableSortAsc(s, <<>>)) ELSE StableSortAsc(s, <<>>)

\* list.sort(key=..., reverse=...): a stable sort; with reverse the list is
\* reversed before and after, which keeps equal keys in their original order
ListSort(s, reverse) ==
  IF reverse THEN Reverse(StableSortAsc(Reverse(s), <<>>))
  ELSE StableSortAsc(s, <<>>)

FillRankZeroBased(rs) == [k \in 1..Len(rs) |-> [rs[k] EXCEPT !.rank = k - 1]]

\* for idx, r in enumerate(rows, start=1): r["rank"] = idx
FillRank(rs) == [k \in 1..Len(rs) |-> [rs[k] EXCEPT !.rank = k]]

\* ---------------------------------------------------------------- actions
loopVars == <<fileExists, lines, LIMIT, public_keys>>

outVars == <<csvFile, jsonFile, csvWrites, jsonWrites>>

\* read_public_keys(INPUT_KEYS_FILE), the limit, rows = [], errors = []
ReadKeys ==
  /\ pc = "start"
  /\ IF FileMissing(fileExists)
       THEN /\ pc' = "exit"
            /\ UNCHANGED <<public_keys, i, rows, errors>>
       ELSE /\ public_keys' = ApplyLimit(read_public_keys(lines), LIMIT)
            /\ rows' = <<>>
            /\ errors' = <<>>
            /\ i' = 1
            /\ pc' = ForNext(public_keys', 1)
  /\ UNCHANGED <<fileExists, lines, LIMIT, acct, liquid_motes, delegations,
                 requests>>
  /\ UNCHANGED outVars

\* acct = get_account(pk)
GetAccount ==
  /\ pc = "acct"
  /\ \E ok \in BOOLEAN :
       /\ requests' = Append(requests,
                             [kind |-> "account", entry |-> i, ok |-> ok])
       /\ IF ok
            THEN /\ \E data \in AccountData : acct' = Some(data)
                 /\ pc' = "balance"
                 /\ UNCHANGED <<rows, errors>>
            ELSE /\ Raise("HTTPError")
                 /\ UNCHANGED acct
  /\ UNCHANGED <<i, liquid_motes, delegations>>
  /\ UNCHANGED loopVars
  /\ UNCHANGED outVars

\* liquid_motes = int(acct.get("balance", "0"))
ParseBalance ==
  /\ pc = "balance"
  /\ LET p == PyInt(DictGet(acct.val, "balance", <<"0">>))
     IN IF p.ok
          THEN /\ liquid_motes' = Some(p.val)
               /\ pc' = "deleg"
               /\ UNCHANGED <<rows, errors>>
          ELSE /\ Raise("ValueError")
               /\ UNCHANGED liquid_motes
  /\ UNCHANGED <<i, acct, delegations, requests>>
  /\ UNCHANGED loopVars
  /\ UNCHANGED outVars

\* delegations = get_delegations(pk)
GetDelegations ==
  /\ pc = "deleg"
  /\ \E ok \in BOOLEAN :
       /\ requests' = Append(requests,
                             [kind |-> "delegations", entry |-> i, ok |-> ok])
       /\ IF ok
            THEN /\ \E data \in DelegationData : delegations' = Some(data)
                 /\ pc' = "agg"
                 /\ UNCHANGED <<rows, errors>>
            ELSE /\ Raise("HTTPError")
                 /\ UNCHANGED delegations
  /\ UNCHANGED <<i, acct, liquid_motes>>
  /\ UNCHANGED loopVars
  /\ UNCHANGED outVars

\* the stake loop, total_motes, the row and rows.append(row)
Aggregate ==
  /\ pc = "agg"
  /\ LET staked_motes == SumStakes(delegations.val, 0)
     IN rows' = Append(rows, MakeRow(public_keys[i], liquid_motes.val,
                                     staked_motes, i))
  /\ pc' = "sleep"
  /\ UNCHANGED <<i, errors, acct, liquid_motes, delegations, requests>>
  /\ UNCHANGED loopVars
  /\ UNCHANGED outVars

\* time.sleep(SLEEP_BETWEEN) and the next turn of the for statement.  The
\* locals of the loop body are assigned before they are read in every turn,
\* so they are cleared here.
Sleep ==
  /\ pc = "sleep"
  /\ i' = NextIndex(i)
  /\ pc' = ForNext(public_keys, i')
  /\ acct' = None
  /\ liquid_motes' = None
  /\ delegations' = None
  /\ UNCHANGED <<rows, errors, requests>>
  /\ UNCHANGED loopVars
  /\ UNCHANGED outVars

\* rows.sort(key=lambda r: int(r["total_motes"]), reverse=True)
SortRows ==
  /\ pc = "sort"
  /\ rows' = ListSort(rows, TRUE)
  /\ pc' = "rank"
  /\ UNCHANGED <<i, errors, acct, liquid_motes, delegations, requests>>
  /\ UNCHANGED loopVars
  /\ UNCHANGED outVars

RankRows ==
  /\ pc = "rank"
  /\ rows' = FillRank(rows)
  /\ pc' = "csv"
  /\ UNCHANGED <<i, errors, acct, liquid_motes, delegations, requests>>
  /\ UNCHANGED loopVars
  /\ UNCHANGED outVars

\* open(CSV_OUT, "w") ... writer.writerows(rows)
WriteCsv ==
  /\ pc = "csv"
  /\ csvFile' = Some(rows)
  /\ csvWrites' = csvWrites + 1
  /\ pc' = "json"
  /\ UNCHANGED <<i, rows, errors, acct, liquid_motes, delegations, requests,
                 jsonFile, jsonWrites>>
  /\ UNCHANGED loopVars

\* json.dump({"network", "updated_at", "rows", "errors"}); the timestamp is
\* left out
WriteJson ==
  /\ pc = "json"
  /\ jsonFile' = Some([network |-> "testnet", rows |-> rows,
                       errors |-> errors])
  /\ jsonWrites' = jsonWrites + 1
  /\ pc' = "done"
  /\ UNCHANGED <<i, rows, errors, acct, liquid_motes, delegations, requests,
                 csvFile, csvWrites>>
  /\ UNCHANGED loopVars

Next ==
  \/ ReadKeys
  \/ GetAccount
  \/ ParseBalance
  \/ GetDelegations
  \/ Aggregate
  \/ Sleep
  \/ SortRows
  \/ RankRows
  \/ WriteCsv
  \/ WriteJson

Spec == Init /\ [][Next]_vars

\* ------------------------------------------------- vocabulary of the claims
\* the largest total the responses above can add up to
ValueCap == 9 + MaxDelegs

\* s is the decimal numeral of a natural number
IsNumeral(s) == \E n \in 0..ValueCap : PyStr(n) = s

\* that number
NatOf(s) == CHOOSE n \in 0..ValueCap : PyStr(n) = s

LoopOver == pc \in {"sort", "rank", "csv", "json", "done"}

Sorted == pc \in {"rank", "csv", "json", "done"}

Ranked == pc \in {"csv", "json", "done"}

RowsOf(n) == { k \in 1..Len(rows) : rows[k].entry = n }

ErrorsOf(n) == { k \in 1..Len(errors) : errors[k].entry = n }

RequestsOf(kind, n) ==
  { k \in 1..Len(requests) : requests[k].kind = kind /\ requests[k].entry = n }

AccountRaised(n) ==
  \E k \in RequestsOf("account", n) : ~requests[k].ok

\* the row lists a reader of the two files sees
EmittedLists ==
  (IF csvFile.bound THEN {csvFile.val} ELSE {})
    \cup (IF jsonFile.bound THEN {jsonFile.val.rows} ELSE {})

\* C1: when main() completes, len(rows) + len(errors) equals the number of
\* keys left after the limit, in memory and in the JSON output, and every
\* processed entry has exactly one row or exactly one error entry.
C1_RowsPlusErrors ==
  /\ LoopOver =>
       /\ Len(rows) + Len(errors) = Len(public_keys)
       /\ \A n \in 1..Len(public_keys) :
            Cardinality(RowsOf(n)) + Cardinality(ErrorsOf(n)) = 1
  /\ pc = "done" =>
       Len(jsonFile.val.rows) + Len(jsonFile.val.errors)
         = Len(ApplyLimit(read_public_keys(lines), LIMIT))

C1_Witness ==
  /\ pc = "done"
  /\ LIMIT > 0
  /\ Len(rows) = 1
  /\ Len(errors) = 1
  /\ Len(jsonFile.val.rows) + Len(jsonFile.val.errors) = 2

\* C2 as stated: no key is in a row and in an error entry, whatever the
\* input key sequence, one that repeats a key included.
C2_KeyNeverInBoth ==
  \A k \in 1..Len(rows) : \A m \in 1..Len(errors) :
    rows[k].public_key # errors[m].public_key

\* C2 as amended: no input entry has both a row and an error entry, an entry
\* whose account fetch raised has one error entry and no row in memory or in
\* either output, and when no key is listed twice no key is in both lists.
C2_EntryNeverInBoth ==
  /\ \A n \in 1..Len(public_keys) :
       /\ Cardinality(RowsOf(n)) + Cardinality(ErrorsOf(n)) <= 1
       /\ AccountRaised(n) =>
            /\ Cardinality(ErrorsOf(n)) = 1
            /\ RowsOf(n) = {}
            /\ \A rs \in EmittedLists : \A k \in 1..Len(rs) : rs[k].entry # n
  /\ (\A a, b \in 1..Len(public_keys) :
        a # b => public_keys[a] # public_keys[b])
       => C2_KeyNeverInBoth

C2_Witness ==
  /\ pc = "done"
  /\ \E a, b \in 1..Len(public_keys) :
       /\ a # b
       /\ public_keys[a] = public_keys[b]
       /\ AccountRaised(a)
       /\ RowsOf(b) # {}
       /\ \E k \in 1..Len(csvFile.val) : csvFile.val[k].entry = b

\* C3: in the emitted rows total_motes, read as integers, never increases
\* from one row to the next.
C3_SortedByIntegerTotal ==
  /\ Sorted =>
       \A k \in 1..(Len(rows) - 1) :
         NatOf(rows[k].total_motes) >= NatOf(rows[k + 1].total_motes)
  /\ \A rs \in EmittedLists : \A k \in 1..(Len(rs) - 1) :
       NatOf(rs[k].total_motes) >= NatOf(rs[k + 1].total_motes)

C3_Witness ==
  /\ pc = "done"
  /\ \E k \in 1..(Len(csvFile.val) - 1) :
       /\ csvFile.val[k].total_motes = <<"1", "0">>
       /\ csvFile.val[k + 1].total_motes = <<"9">>

\* C4: in the rows written to the CSV and the JSON output the rank of the
\* row at index k (from 1) is k; no emitted row keeps rank 0.
C4_RankIsPosition ==
  /\ Ranked => \A k \in 1..Len(rows) : rows[k].rank = k
  /\ \A rs \in EmittedLists : \A k \in 1..Len(rs) :
       rs[k].rank = k /\ rs[k].rank # 0

C4_Witness ==
  /\ pc = "done"
  /\ Len(jsonFile.val.rows) = 2
  /\ jsonFile.val.rows[1].total_motes = jsonFile.val.rows[2].total_motes
  /\ jsonFile.val.rows[2].rank = 2
  /\ csvFile.val[1].rank = 1

RECURSIVE SumOver(_, _)
SumOver(f, S) ==
  IF S = {} THEN 0
  ELSE LET x == CHOOSE x \in S : TRUE IN f[x] + SumOver(f, S \ {x})

\* what the balance of an account object counts for
BalanceWorth(data) ==
  IF \E p \in data : p[1] = "balance"
    THEN NatOf((CHOOSE p \in data : p[1] = "balance")[2])
    ELSE 0

\* what one delegation counts for
StakeWorth(d) ==
  IF \E p \in d : p[1] = "stake" /\ IsNumeral(p[2])
    THEN NatOf((CHOOSE p \in d : p[1] = "stake")[2])
    ELSE 0

\* C5: a key whose account and delegations fetches both succeeded gets a
\* row and no error entry; its liquid_motes is the balance (0 when missing),
\* its staked_motes the sum of the stakes that parse, the others counting 0,
\* and in every row total_motes = liquid_motes + staked_motes.
C5_RowOfSuccessfulKey ==
  /\ (pc = "sleep" /\ \E k \in RequestsOf("delegations", i) : requests[k].ok)
       => /\ \E k \in RequestsOf("account", i) : requests[k].ok
          /\ ErrorsOf(i) = {}
          /\ rows # <<>>
          /\ LET r == rows[Len(rows)]
                 ds == delegations.val
             IN /\ r.entry = i
                /\ r.public_key = public_keys[i]
                /\ r.liquid_motes = PyStr(BalanceWorth(acct.val))
                /\ r.staked_motes =
                     PyStr(SumOver([k \in 1..Len(ds) |-> StakeWorth(ds[k])],
                                   1..Len(ds)))
  /\ \A k \in 1..Len(rows) :
       NatOf(rows[k].total_motes)
         = NatOf(rows[k].liquid_motes) + NatOf(rows[k].staked_motes)

C5_Witness ==
  /\ pc = "sleep"
  /\ delegations.bound
  /\ acct.val = {}
  /\ Len(delegations.val) = 2
  /\ delegations.val[1] = { <<"stake", <<"x">>>> }
  /\ delegations.val[2] = { <<"stake", <<"1">>>> }
  /\ rows[Len(rows)].entry = i
  /\ rows[Len(rows)].total_motes = <<"1">>

\* first and last index of a non-whitespace character
Trimmed(s) ==
  LET ink == { k \in 1..Len(s) : s[k] \notin Whitespace }
  IN IF ink = {} THEN <<>>
     ELSE SubSeq(s, CHOOSE k \in ink : \A m \in ink : k <= m,
                    CHOOSE k \in ink : \A m \in ink : k >= m)

IsKeyLine(t) == t # <<>> /\ t[1] # "#"

\* the trimmed key lines of the file, in file order
KeysOfFile ==
  SelectSeq([k \in 1..Len(lines) |-> Trimmed(lines[k])], IsKeyLine)

ExpectedKeys ==
  IF LIMIT > 0 /\ LIMIT < Len(KeysOfFile)
    THEN [k \in 1..LIMIT |-> KeysOfFile[k]]
    ELSE KeysOfFile

\* C6: the keys main() processes are the trimmed, non-empty, non-comment
\* lines of the file in file order, cut to the first LIMIT when LIMIT > 0
\* and not cut when LIMIT is 0 or unset; each of them, and nothing else, is
\* requested and recorded, in that order.
C6_ProcessedKeys ==
  LET expected == ExpectedKeys
      count == Len(expected)
  IN /\ pc \notin {"start", "exit"} => public_keys = expected
     /\ \A k \in 1..Len(requests) :
          /\ requests[k].entry \in 1..count
          /\ k > 1 => requests[k - 1].entry <= requests[k].entry
     /\ \A k \in 1..Len(rows) :
          /\ rows[k].entry \in 1..count
          /\ rows[k].public_key = expected[rows[k].entry]
     /\ \A k \in 1..Len(errors) :
          /\ errors[k].entry \in 1..count
          /\ errors[k].public_key = expected[errors[k].entry]
     /\ LoopOver =>
          \A n \in 1..count :
            RequestsOf("account", n) # {} /\ RowsOf(n) \cup ErrorsOf(n) # {}

C6_Witness ==
  /\ pc = "done"
  /\ LIMIT = 1
  /\ Len(lines) = 2
  /\ lines[1] = <<" ", "a", " ", "\n">>
  /\ lines[2] = <<"b", "\n">>
  /\ public_keys = << <<"a">> >>
  /\ Len(rows) + Len(errors) = 1

\* C7: when the input file does not exist the run ends at the fatal exit:
\* no request is issued, no key is processed, neither output is written.
C7_MissingFileAborts ==
  ~fileExists =>
    /\ pc \in {"start", "exit"}
    /\ requests = <<>>
    /\ public_keys = <<>>
    /\ rows = <<>>
    /\ errors = <<>>
    /\ csvWrites = 0
    /\ jsonWrites = 0
    /\ ~csvFile.bound
    /\ ~jsonFile.bound

C7_Witness == ~fileExists /\ pc = "exit"

\* C8: two rows with equal total_motes are emitted in the order in which
\* their keys stand in the input.
C8_TiesKeepInputOrder ==
  /\ Sorted =>
       \A k, m \in 1..Len(rows) :
         (k < m /\ NatOf(rows[k].total_motes) = NatOf(rows[m].total_motes))
           => rows[k].entry < rows[m].entry
  /\ \A rs \in EmittedLists : \A k, m \in 1..Len(rs) :
       (k < m /\ NatOf(rs[k].total_motes) = NatOf(rs[m].total_motes))
         => rs[k].entry < rs[m].entry

C8_Witness ==
  /\ pc = "done"
  /\ Len(csvFile.val) = 2
  /\ csvFile.val[1].total_motes = csvFile.val[2].total_motes
  /\ csvFile.val[1].entry = 1
  /\ csvFile.val[2].entry = 2

Recorded(n) == RowsOf(n) \cup ErrorsOf(n) # {}

\* C9: every entry is recorded at most once, gets at most one account and at
\* most one delegations request, the delegations request only after its
\* account request succeeded, and no request is issued for an entry before
\* every earlier entry is recorded as a row or an error.
C9_SequentialNoRetry ==
  /\ \A n \in 1..Len(public_keys) :
       /\ Cardinality(RowsOf(n)) + Cardinality(ErrorsOf(n)) <= 1
       /\ Cardinality(RequestsOf("account", n)) <= 1
       /\ Cardinality(RequestsOf("delegations", n)) <= 1
       /\ \A k \in RequestsOf("delegations", n) :
            \E m \in RequestsOf("account", n) : m < k /\ requests[m].ok
       /\ Recorded(n) => RequestsOf("account", n) # {}
  /\ \A k \in 1..Len(requests) :
       /\ requests[k].entry \in 1..Len(public_keys)
       /\ \A n \in 1..(requests[k].entry - 1) : Recorded(n)
       /\ k > 1 => requests[k - 1].entry <= requests[k].entry
  /\ pc \in {"acct", "balance", "deleg", "agg"} => ~Recorded(i)

C9_Witness ==
  /\ pc = "deleg"
  /\ i = 2
  /\ RowsOf(1) # {}
  /\ Len(requests) = 3

\* C10: each output is written at most once and only after the loop is over
\* and the rows are sorted and ranked, both hold the same final row list,
\* and a run whose input file exists never takes the fatal exit, whatever
\* keys failed: it ends with both outputs written.
C10_OutputsWrittenOnceAtEnd ==
  /\ csvWrites <= 1
  /\ jsonWrites <= 1
  /\ csvWrites = 1 <=> pc \in {"json", "done"}
  /\ jsonWrites = 1 <=> pc = "done"
  /\ csvFile.bound <=> csvWrites = 1
  /\ jsonFile.bound <=> jsonWrites = 1
  /\ csvWrites = 1 =>
       /\ \A n \in 1..Len(public_keys) : Recorded(n)
       /\ i = Len(public_keys) + 1
       /\ csvFile.val = rows
       /\ \A k \in 1..Len(rows) : rows[k].rank = k
       /\ \A k \in 1..(Len(rows) - 1) :
            NatOf(rows[k].total_motes) >= NatOf(rows[k + 1].total_motes)
  /\ jsonWrites = 1 =>
       /\ jsonFile.val.rows = csvFile.val
       /\ jsonFile.val.rows = rows
       /\ jsonFile.val.errors = errors
  /\ pc = "exit" => ~fileExists
  /\ pc \in {"acct", "balance", "deleg", "agg", "sleep"} =>
       i \in 1..Len(public_keys)
  /\ pc \in {"sort", "rank"} => i = Len(public_keys) + 1

C10_Witness ==
  /\ pc = "done"
  /\ csvWrites = 1
  /\ jsonWrites = 1
  /\ Len(errors) >= 1
  /\ Len(rows) >= 1
====
